---------------------------- MODULE Spec2Model ----------------------------
(***************************************************************************)
(* NBA stats pipeline: lambda_handler / main drive one NBAStatsPipeline    *)
(* through setup_dynamodb_table, fetch_player_stats and store_team_stats.  *)
(* The DynamoDB table, the sportsdata.io endpoint, the wall clock and the  *)
(* process-wide 'NBAStatsPipeline' logger are the environment.             *)
(***************************************************************************)
EXTENDS Integers, Sequences, FiniteSets, TLC

VARIABLES
    handlers,      \* handlers attached to logging.getLogger('NBAStatsPipeline'),
                   \* counted by kind (their order in the list is not kept)
    tables,        \* names of the tables that exist in DynamoDB
    store,         \* items of the table, at most one per (TeamID, Timestamp)
    invocations,   \* invocations started in this process
    pc,            \* position of the running invocation
    entry,         \* "lambda" (lambda_handler) or "main" (main)
    calls,         \* pipeline methods called by this invocation, in order
    provOutcome,   \* what create_table / the waiter did in this invocation
    fetchOutcome,  \* what requests.get / raise_for_status / json did
    stats,         \* the value fetch_player_stats returned
    timestamp,     \* store_team_stats' local `timestamp`
    idx,           \* position of the `for team in stats_data` loop
    buffer,        \* items held by the batch writer, not yet sent
    submitted,     \* items handed to batch.put_item, in order
    storeOutcome,  \* how store_team_stats ended
    acked,         \* how many of `submitted` the table has accepted
    storeAtStart,  \* contents of the table when this invocation began
    result,        \* what the entry point returned
    tin,           \* convert_floats_to_decimals: argument
    tout,          \* convert_floats_to_decimals(tin)
    tout2,         \* convert_floats_to_decimals(tout)
    tpc            \* position of the transform run

procVars  == <<handlers, tables, store, invocations>>
runVars   == <<pc, entry, calls, provOutcome, fetchOutcome, stats, timestamp,
               idx, buffer, submitted, storeOutcome, acked, storeAtStart,
               result>>
transVars == <<tin, tout, tout2, tpc>>
vars      == <<procVars, runVars, transVars>>

----------------------------------------------------------------------------
(* Bounds *)

MaxDepth       == 2   \* nesting depth of the values given to the transform
MaxRecords     == 3   \* teams in one API response
MaxInvocations == 2   \* invocations in one process
FlushAmount    == 2   \* items the batch writer holds before it sends them

ListLens == {0, 1, 2}        \* lengths of the lists given to the transform
DictKeys == {"Stats"}        \* keys of the dicts given to the transform

----------------------------------------------------------------------------
(* Python values.  A float is the shortest decimal m * 10^e that repr() *)
(* prints for it (m >= 0, m without trailing zeros).                     *)

PyInt(i)      == [t |-> "int", i |-> i]
PyFloat(m, e) == [t |-> "float", m |-> m, e |-> e]
PyStr(s)      == [t |-> "str", s |-> s]
PyNone        == [t |-> "none"]
PyList(l)     == [t |-> "list", l |-> l]
PyDict(d)     == [t |-> "dict", d |-> d]
Decimal(c, x) == [t |-> "Decimal", coeff |-> c, exp |-> x]

RECURSIVE Pow10(_)
Pow10(n) == IF n <= 0 THEN 1 ELSE 10 * Pow10(n - 1)

RECURSIVE NumDigits(_)
NumDigits(m) == IF m < 10 THEN 1 ELSE 1 + NumDigits(m \div 10)

\* str(item) for a float: repr() prints fixed notation with at least one
\* fractional digit when the decimal point lies in (-4, 16], and scientific
\* notation otherwise.
float_str(f) ==
    LET decpt == NumDigits(f.m) + f.e
    IN  IF -4 < decpt /\ decpt <= 16
        THEN IF f.e >= 0
             THEN [notation |-> "fixed", digits |-> f.m * Pow10(f.e + 1), frac |-> 1]
             ELSE [notation |-> "fixed", digits |-> f.m, frac |-> -f.e]
        ELSE [notation |-> "sci", digits |-> f.m, exp |-> f.e]

\* Decimal(s) for the string of a float: the digits as written and the
\* exponent that places the point.
DecimalOfStr(s) ==
    IF s.notation = "fixed" THEN Decimal(s.digits, -s.frac)
                            ELSE Decimal(s.digits, s.exp)

\* Variant: lists are not descended into.
RECURSIVE convert_floats_shallow(_)
convert_floats_shallow(item) ==
    IF item.t = "float" THEN DecimalOfStr(float_str(item))
    ELSE IF item.t = "dict"
         THEN PyDict([k \in DOMAIN item.d |-> convert_floats_shallow(item.d[k])])
         ELSE item

RECURSIVE convert_floats_to_decimals(_)
convert_floats_to_decimals(item) ==
    IF item.t = "float" THEN DecimalOfStr(float_str(item))
    ELSE IF item.t = "dict"
         THEN PyDict([k \in DOMAIN item.d |-> convert_floats_to_decimals(item.d[k])])
         ELSE IF item.t = "list"
              THEN PyList([i \in 1..Len(item.l) |-> convert_floats_to_decimals(item.l[i])])
              ELSE item

----------------------------------------------------------------------------
(* Inputs of the transform *)

Leaves == {PyInt(50), PyFloat(6097, -4), PyFloat(5, 1), PyStr("BOS")}

ListsOver(S) == UNION {[1..n -> S] : n \in ListLens}
DictsOver(S) == UNION {[K -> S] : K \in SUBSET DictKeys}

RECURSIVE Values(_)
Values(d) ==
    IF d = 0 THEN Leaves
    ELSE LET V == Values(d - 1)
         IN  V \cup {PyList(l) : l \in ListsOver(V)}
               \cup {PyDict(m) : m \in DictsOver(V)}

----------------------------------------------------------------------------
(* Environment of the pipeline *)

TableName == "nba-stats"     \* os.getenv('DYNAMODB_TABLE_NAME')

\* Readings of the wall clock, datetime.now(): seconds and microseconds of
\* one minute.  It is the naive local time, read as it is: a reading may be
\* later than, equal to or earlier than the one before it.
Times == {[s |-> 1, us |-> 0], [s |-> 1, us |-> 5]}

\* datetime.isoformat(): the microseconds are printed only when not zero.
isoformat(t) ==
    "2024-10-22T09:30:0" \o ToString(t.s)
        \o (IF t.us = 0 THEN "" ELSE ".00000" \o ToString(t.us))

Celtics ==
    [TeamID |-> 1, Key |-> "BOS", City |-> "Boston", Name |-> "Celtics",
     Conference |-> "Eastern", Division |-> "Atlantic",
     Wins |-> PyInt(50), Losses |-> PyInt(32), Percentage |-> PyFloat(6097, -4),
     PointsPerGameFor |-> PyFloat(1179, -1), PointsPerGameAgainst |-> PyFloat(1114, -1),
     HomeWins |-> PyInt(30), HomeLosses |-> PyInt(11),
     AwayWins |-> PyInt(20), AwayLosses |-> PyInt(21),
     LastTenWins |-> PyInt(7), LastTenLosses |-> PyInt(3)]

Lakers ==
    [TeamID |-> 2, Key |-> "LAL", City |-> "Los Angeles", Name |-> "Lakers",
     Conference |-> "Western", Division |-> "Pacific",
     Wins |-> PyInt(41), Losses |-> PyInt(41), Percentage |-> PyFloat(5, -1),
     PointsPerGameFor |-> PyFloat(112, 0), PointsPerGameAgainst |-> PyFloat(1135, -1),
     HomeWins |-> PyInt(25), HomeLosses |-> PyInt(16),
     AwayWins |-> PyInt(16), AwayLosses |-> PyInt(25),
     LastTenWins |-> PyInt(5), LastTenLosses |-> PyInt(5)]

\* A team object without its 'Percentage' member.
Pelicans ==
    [TeamID |-> 3, Key |-> "NOP", City |-> "New Orleans", Name |-> "Pelicans",
     Conference |-> "Western", Division |-> "Southwest",
     Wins |-> PyInt(0), Losses |-> PyInt(0),
     PointsPerGameFor |-> PyFloat(0, 0), PointsPerGameAgainst |-> PyFloat(0, 0),
     HomeWins |-> PyInt(0), HomeLosses |-> PyInt(0),
     AwayWins |-> PyInt(0), AwayLosses |-> PyInt(0),
     LastTenWins |-> PyInt(0), LastTenLosses |-> PyInt(0)]

Teams == {Celtics, Lakers, Pelicans}

\* What the endpoint can answer: no answer, an error status, a body that is
\* not JSON, a JSON number (len(data) raises TypeError), or a JSON array of
\* team objects.
Bodies    == {PyList(l) : l \in UNION {[1..n -> Teams] : n \in 0..MaxRecords}}
Failures  == {"ConnectionError", "HTTPError", "JSONDecodeError", "TypeError"}
Responses == {[outcome |-> k, data |-> PyNone] : k \in Failures}
                 \cup {[outcome |-> "ok", data |-> b] : b \in Bodies}

ItemKeys == {"TeamID", "Key", "City", "Name", "Conference", "Division",
             "Wins", "Losses", "Percentage", "PointsPerGameFor",
             "PointsPerGameAgainst", "HomeWins", "HomeLosses", "AwayWins",
             "AwayLosses", "LastTenWins", "LastTenLosses"}

\* Every team[...] lookup of the loop body finds its key.
WellFormed(team) == ItemKeys \subseteq DOMAIN team

----------------------------------------------------------------------------
(* setup_logger *)

NoHandlers == [console |-> 0, cloudwatch |-> 0]

\* addHandler(console_handler), and addHandler(cloudwatch_handler) when the
\* CloudWatch handler could be built.
setup_logger(hs, cloudwatchOk) ==
    [console    |-> hs.console + 1,
     cloudwatch |-> hs.cloudwatch + (IF cloudwatchOk THEN 1 ELSE 0)]

----------------------------------------------------------------------------
(* Entry points: what lambda_handler and main return *)

json_dumps(s) == "\"" \o s \o "\""

MainReturn == [returned |-> "None"]

OnSuccess(e) ==
    IF e = "lambda"
    THEN [statusCode |-> 200, body |-> json_dumps("Successfully updated NBA stats")]
    ELSE MainReturn

OnNoStats(e) ==
    IF e = "lambda"
    THEN [statusCode |-> 500, body |-> json_dumps("Failed to fetch NBA stats")]
    ELSE MainReturn

\* Variant: a handler without the except clause lets the exception out.
OnExceptionEscapes(e, exc) == [raised |-> exc]

OnException(e, exc) ==
    IF e = "lambda"
    THEN [statusCode |-> 500, body |-> json_dumps("Error: " \o exc)]
    ELSE MainReturn

\* `if stats:` -- None and the empty list are both false.
Truthy(x) == x # PyNone /\ (x.t = "list" => Len(x.l) > 0)

NoResult == [pending |-> TRUE]

\* An event arrives: the process is fresh, or the previous invocation has
\* returned.
Invoke ==
    /\ pc \in {"idle", "done"}
    /\ invocations < MaxInvocations
    /\ \E e \in {"lambda", "main"} : entry' = e
    /\ invocations' = invocations + 1
    /\ pc' = "construct"
    /\ calls' = <<>>
    /\ provOutcome' = "none" /\ fetchOutcome' = "none" /\ storeOutcome' = "none"
    /\ stats' = PyNone /\ timestamp' = "" /\ idx' = 0
    /\ buffer' = <<>> /\ submitted' = <<>>
    /\ acked' = 0
    /\ storeAtStart' = store
    /\ result' = NoResult
    /\ UNCHANGED <<handlers, tables, store, transVars>>

\* NBAStatsPipeline(): setup_logger, then boto3.resource, which may raise.
NBAStatsPipeline_init ==
    /\ pc = "construct"
    /\ \E cloudwatchOk \in BOOLEAN : handlers' = setup_logger(handlers, cloudwatchOk)
    /\ \E botoOk \in BOOLEAN :
          IF botoOk
          THEN pc' = "setup" /\ UNCHANGED result
          ELSE pc' = "done" /\ result' = OnException(entry, "NoRegionError")
    /\ UNCHANGED <<tables, store, invocations, entry, calls, provOutcome,
                   fetchOutcome, stats, timestamp, idx, buffer, submitted,
                   storeOutcome, acked, storeAtStart, transVars>>

----------------------------------------------------------------------------
(* setup_dynamodb_table *)

\* What create_table and the waiter can do against the store as it is.
CreateOutcomes(ts) ==
    IF TableName \in ts THEN {"ResourceInUseException", "ClientError"}
                        ELSE {"created", "WaiterError", "ClientError"}

TablesAfter(ts, outcome) ==
    IF outcome \in {"created", "WaiterError"} THEN ts \cup {TableName} ELSE ts

\* Variant: no inner except clause, ResourceInUseException is re-raised too.
SetupRaisesInUse(outcome) ==
    outcome \in {"WaiterError", "ClientError", "ResourceInUseException"}

\* Only ResourceInUseException is caught by the inner try; the rest is
\* logged and re-raised.
SetupRaises(outcome) == outcome \in {"WaiterError", "ClientError"}

\* Variant: an entry point that ignores a failed provisioning.
AfterSetupAlwaysFetch(raised) == "fetch"

\* The entry point goes on to the fetch only when the call returned.
AfterSetup(raised) == IF raised THEN "done" ELSE "fetch"

setup_dynamodb_table ==
    /\ pc = "setup"
    /\ calls' = Append(calls, "setup_dynamodb_table")
    /\ \E outcome \in CreateOutcomes(tables) :
          /\ provOutcome' = outcome
          /\ tables' = TablesAfter(tables, outcome)
          /\ pc' = AfterSetup(SetupRaises(outcome))
          /\ result' = IF SetupRaises(outcome) THEN OnException(entry, outcome)
                                               ELSE result
    /\ UNCHANGED <<handlers, store, invocations, entry, fetchOutcome, stats,
                   timestamp, idx, buffer, submitted, storeOutcome, acked,
                   storeAtStart, transVars>>

----------------------------------------------------------------------------
(* fetch_player_stats, and the entry point's `if stats:` *)

\* requests.get, raise_for_status, response.json() and len(data): every
\* exception is caught and turned into None.
FetchReturn(resp) == IF resp.outcome = "ok" THEN resp.data ELSE PyNone

fetch_player_stats ==
    /\ pc = "fetch"
    /\ calls' = Append(calls, "fetch_player_stats")
    /\ \E resp \in Responses :
          /\ fetchOutcome' = resp.outcome
          /\ stats' = FetchReturn(resp)
          /\ IF Truthy(FetchReturn(resp))
             THEN pc' = "store" /\ UNCHANGED result
             ELSE pc' = "done" /\ result' = OnNoStats(entry)
    /\ UNCHANGED <<procVars, entry, provOutcome, timestamp, idx, buffer,
                   submitted, storeOutcome, acked, storeAtStart, transVars>>

----------------------------------------------------------------------------
(* store_team_stats *)

StatsOf(team) ==
    PyDict([Wins |-> team.Wins, Losses |-> team.Losses,
            Percentage |-> team.Percentage,
            PointsPerGameFor |-> team.PointsPerGameFor,
            PointsPerGameAgainst |-> team.PointsPerGameAgainst,
            HomeWins |-> team.HomeWins, HomeLosses |-> team.HomeLosses,
            AwayWins |-> team.AwayWins, AwayLosses |-> team.AwayLosses,
            LastTenWins |-> team.LastTenWins,
            LastTenLosses |-> team.LastTenLosses])

\* Variant: the key timestamp read anew for every item.
TeamItemPerItemTimestamp(team, ts, lastUpdated) ==
    [TeamID |-> team.TeamID, Timestamp |-> lastUpdated, TeamKey |-> team.Key,
     TeamName |-> team.City \o " " \o team.Name,
     Conference |-> team.Conference, Division |-> team.Division,
     Stats |-> convert_floats_to_decimals(StatsOf(team)),
     LastUpdated |-> lastUpdated]

\* The `team_item` of the loop body.
TeamItem(team, ts, lastUpdated) ==
    [TeamID |-> team.TeamID, Timestamp |-> ts, TeamKey |-> team.Key,
     TeamName |-> team.City \o " " \o team.Name,
     Conference |-> team.Conference, Division |-> team.Division,
     Stats |-> convert_floats_to_decimals(StatsOf(team)),
     LastUpdated |-> lastUpdated]

\* The table's key schema: TeamID (HASH), Timestamp (RANGE).
ItemKey(item) == <<item.TeamID, item.Timestamp>>

\* PutItem replaces the item that has the same key, if there is one.
PutItem(s, item) == {i \in s : ItemKey(i) # ItemKey(item)} \cup {item}

RECURSIVE PutAll(_, _)
PutAll(s, chunk) ==
    IF chunk = <<>> THEN s ELSE PutAll(PutItem(s, Head(chunk)), Tail(chunk))

HasDuplicateKeys(chunk) ==
    \E i, j \in 1..Len(chunk) : i # j /\ ItemKey(chunk[i]) = ItemKey(chunk[j])

\* One BatchWriteItem request: nothing is sent for an empty buffer, a
\* request that names a key twice is rejected, any other request is written
\* whole or fails.
FlushOutcomes(chunk) ==
    IF chunk = <<>> THEN {TRUE}
    ELSE IF HasDuplicateKeys(chunk) THEN {FALSE} ELSE BOOLEAN

\* str(e): a KeyError prints the repr of the missing key.
ExcStr(kind) == IF kind = "KeyError" THEN "'Percentage'" ELSE kind

\* Variant: the loop carries on after an exception.
LoopAfterSwallow(raised) == "storing"

\* An exception leaves the loop, the `with` block and the method.
LoopAfter(raised) == IF raised THEN "done" ELSE "storing"

store_team_stats_begin ==
    /\ pc = "store"
    /\ calls' = Append(calls, "store_team_stats")
    /\ \E now \in Times : timestamp' = isoformat(now)
    /\ idx' = 1
    /\ buffer' = <<>>
    /\ pc' = "storing"
    /\ UNCHANGED <<handlers, tables, store, invocations, entry, provOutcome, fetchOutcome, stats, submitted,
                   storeOutcome, acked, storeAtStart, result, transVars>>

\* One pass of the loop body.  Building the item raises KeyError on a
\* missing member, and the batch writer's __exit__ then sends what it
\* holds; put_item sends the buffer once it holds FlushAmount items.
store_team_stats_put ==
    /\ pc = "storing"
    /\ idx <= Len(stats.l)
    /\ LET team == stats.l[idx] IN
       IF ~WellFormed(team)
       THEN \E ok \in FlushOutcomes(buffer) :
              LET kind == IF ok THEN "KeyError" ELSE "ClientError" IN
              /\ store' = IF ok THEN PutAll(store, buffer) ELSE store
              /\ acked' = IF ok THEN Len(submitted) ELSE acked
              /\ buffer' = <<>>
              /\ storeOutcome' = kind
              /\ pc' = LoopAfter(TRUE)
              /\ result' = OnException(entry, ExcStr(kind))
              /\ UNCHANGED <<idx, submitted>>
       ELSE \E now \in Times :
              LET item == TeamItem(team, timestamp, isoformat(now))
                  buf  == Append(buffer, item)
                  send == IF Len(buf) >= FlushAmount THEN buf ELSE <<>>
              IN  /\ submitted' = Append(submitted, item)
                  /\ \E ok \in FlushOutcomes(send) :
                        /\ store' = IF ok THEN PutAll(store, send) ELSE store
                        /\ acked' = IF ok /\ send # <<>> THEN Len(submitted) + 1
                                                          ELSE acked
                        /\ buffer' = IF send = <<>> THEN buf ELSE <<>>
                        /\ pc' = LoopAfter(~ok)
                        /\ idx' = IF ok THEN idx + 1 ELSE idx
                        /\ storeOutcome' = IF ok THEN storeOutcome ELSE "ClientError"
                        /\ result' = IF ok THEN result
                                           ELSE OnException(entry, ExcStr("ClientError"))
    /\ UNCHANGED <<handlers, tables, invocations, entry, calls, provOutcome,
                   fetchOutcome, stats, timestamp, storeAtStart, transVars>>

\* The loop is over: __exit__ sends what is left, the method returns and
\* the entry point reports success.
store_team_stats_exit ==
    /\ pc = "storing"
    /\ idx > Len(stats.l)
    /\ \E ok \in FlushOutcomes(buffer) :
          /\ store' = IF ok THEN PutAll(store, buffer) ELSE store
          /\ acked' = IF ok THEN Len(submitted) ELSE acked
          /\ storeOutcome' = IF ok THEN "ok" ELSE "ClientError"
          /\ result' = IF ok THEN OnSuccess(entry)
                             ELSE OnException(entry, ExcStr("ClientError"))
    /\ buffer' = <<>>
    /\ pc' = "done"
    /\ UNCHANGED <<handlers, tables, invocations, entry, calls,
                   provOutcome, fetchOutcome, stats, timestamp, idx, submitted,
                   storeAtStart, transVars>>

Init ==
    /\ handlers = NoHandlers /\ tables = {} /\ store = {}
    /\ invocations = 0
    /\ pc = "idle" /\ entry = "none" /\ calls = <<>>
    /\ provOutcome = "none" /\ fetchOutcome = "none" /\ stats = PyNone
    /\ timestamp = "" /\ idx = 0 /\ buffer = <<>> /\ submitted = <<>>
    /\ storeOutcome = "none" /\ acked = 0 /\ storeAtStart = {}
    /\ result = NoResult
    /\ tin = PyNone /\ tout = PyNone /\ tout2 = PyNone /\ tpc = "input"

Next ==
    \/ Invoke
    \/ NBAStatsPipeline_init
    \/ setup_dynamodb_table
    \/ fetch_player_stats
    \/ store_team_stats_begin
    \/ store_team_stats_put
    \/ store_team_stats_exit

Spec == Init /\ [][Next]_vars

----------------------------------------------------------------------------
(* The transform applied to one value, then to its own result *)

InitT ==
    /\ tin \in Values(MaxDepth)
    /\ tout = PyNone /\ tout2 = PyNone /\ tpc = "input"
    /\ handlers = NoHandlers /\ tables = {} /\ store = {} /\ invocations = 0
    /\ pc = "idle" /\ entry = "none" /\ calls = <<>>
    /\ provOutcome = "none" /\ fetchOutcome = "none" /\ stats = PyNone
    /\ timestamp = "" /\ idx = 0 /\ buffer = <<>> /\ submitted = <<>>
    /\ storeOutcome = "none" /\ acked = 0 /\ storeAtStart = {}
    /\ result = NoResult

Convert ==
    /\ tpc = "input"
    /\ tout' = convert_floats_to_decimals(tin)
    /\ tpc' = "converted"
    /\ UNCHANGED <<tin, tout2, procVars, runVars>>

ConvertAgain ==
    /\ tpc = "converted"
    /\ tout2' = convert_floats_to_decimals(tout)
    /\ tpc' = "twice"
    /\ UNCHANGED <<tin, tout, procVars, runVars>>

NextT == Convert \/ ConvertAgain

SpecT == InitT /\ [][NextT]_vars

----------------------------------------------------------------------------
(* Properties *)

Stages == <<"setup_dynamodb_table", "fetch_player_stats", "store_team_stats">>

Called(name) == \E i \in 1..Len(calls) : calls[i] = name

ProvisionOk == provOutcome \in {"created", "ResourceInUseException"}

StoreFailed == storeOutcome \in {"KeyError", "ClientError"}

ExpectedTeamName(id) ==
    CASE id = 1 -> "Boston Celtics"
      [] id = 2 -> "Los Angeles Lakers"
      [] OTHER  -> "New Orleans Pelicans"

\* C1: lambda_handler always returns a result whose statusCode is 200 or
\* 500, no exception of the pipeline escapes it, and it returns 200 exactly
\* when provisioning, fetch and persist all completed without error.
C1_StatusIs200Or500 ==
    (pc = "done" /\ entry = "lambda") =>
        /\ DOMAIN result = {"statusCode", "body"}
        /\ result.statusCode \in {200, 500}
        /\ (result.statusCode = 200 =>
               ProvisionOk /\ fetchOutcome = "ok" /\ storeOutcome = "ok")
        /\ (storeOutcome = "ok" => result.statusCode = 200)

C1_Witness ==
    /\ pc = "done" /\ entry = "lambda"
    /\ storeOutcome = "ok"
    /\ result.statusCode = 200

\* C2: a failed fetch makes fetch_player_stats return None and the handler
\* return 500 'Failed to fetch NBA stats' without calling store_team_stats,
\* and that message is produced only when the fetch failed.
C2_FailedToFetchOnlyOnFetchFailure ==
    (pc = "done" /\ entry = "lambda") =>
        /\ (fetchOutcome \in Failures =>
               /\ stats = PyNone
               /\ result = [statusCode |-> 500,
                            body |-> json_dumps("Failed to fetch NBA stats")]
               /\ ~Called("store_team_stats"))
        /\ (result.body = json_dumps("Failed to fetch NBA stats") =>
               fetchOutcome \in Failures)

\* C3: provision, fetch and persist are called in this order, each at most
\* once; the fetch is called only after provisioning returned, the persist
\* only after the fetch returned data, and when provisioning raises the run
\* ends (status 500) with neither the fetch nor the persist called.
C3_StagesInOrder ==
    /\ Len(calls) <= 3
    /\ calls = SubSeq(Stages, 1, Len(calls))
    /\ (Called("fetch_player_stats") => ProvisionOk)
    /\ (Called("store_team_stats") => fetchOutcome = "ok")
    /\ (provOutcome \in {"WaiterError", "ClientError"} =>
           /\ pc = "done"
           /\ calls = <<"setup_dynamodb_table">>
           /\ (entry = "lambda" => result.statusCode = 500))

C3_Witness ==
    /\ pc = "done"
    /\ provOutcome = "ClientError"
    /\ entry = "lambda"
    /\ calls = <<"setup_dynamodb_table">>

\* C4: a fetch that returns an empty list of records is data: the persister
\* is called, writes nothing, and the run ends in success (status 200).
C4_EmptyFetchIsSuccess ==
    (pc = "done" /\ fetchOutcome = "ok" /\ stats = PyList(<<>>)) =>
        /\ Called("store_team_stats")
        /\ storeOutcome = "ok"
        /\ (entry = "lambda" => result.statusCode = 200)

\* C5: store_team_stats hands one item per record to put_item, in input
\* order; every item carries the one Timestamp captured before the loop and
\* the TeamName "<City> <Name>"; M records of a completed call give M items.
C5_OneItemPerRecord ==
    /\ \A i \in 1..Len(submitted) :
          /\ submitted[i].TeamID = stats.l[i].TeamID
          /\ submitted[i].TeamKey = stats.l[i].Key
          /\ submitted[i].Timestamp = timestamp
          /\ submitted[i].TeamName = ExpectedTeamName(stats.l[i].TeamID)
    /\ (storeOutcome = "ok" => Len(submitted) = Len(stats.l))

C5_Witness ==
    /\ storeOutcome = "ok"
    /\ Len(submitted) >= 2
    /\ submitted[1].TeamID # submitted[2].TeamID
    /\ submitted[1].LastUpdated # submitted[2].LastUpdated

\* C6: history is append-only: a successful run leaves every item that was
\* in the table before it unchanged and adds exactly one item per record.
C6_AppendOnly ==
    (pc = "done" /\ storeOutcome = "ok") =>
        /\ storeAtStart \subseteq store
        /\ Cardinality(store) = Cardinality(storeAtStart) + Len(stats.l)

\* C7: setup_dynamodb_table succeeds when the table already exists
\* (ResourceInUseException is not an error) as it does when it creates the
\* table, leaves exactly the one table, and re-raises every other failure
\* to its caller.
C7_SetupIdempotent ==
    /\ (ProvisionOk =>
           /\ tables = {TableName}
           /\ (pc = "fetch" \/ Called("fetch_player_stats")))
    /\ (provOutcome \in {"WaiterError", "ClientError"} =>
           /\ pc = "done"
           /\ result = OnException(entry, provOutcome))

C7_Witness ==
    /\ invocations = 2
    /\ provOutcome = "ResourceInUseException"
    /\ pc = "fetch"
    /\ tables = {TableName}

RECURSIVE NoFloat(_)
NoFloat(x) ==
    /\ x.t # "float"
    /\ (x.t = "dict" => \A k \in DOMAIN x.d : NoFloat(x.d[k]))
    /\ (x.t = "list" => \A i \in 1..Len(x.l) : NoFloat(x.l[i]))

\* y is x with each float replaced by a Decimal of the same magnitude and
\* everything else as it was.
RECURSIVE Converted(_, _)
Converted(x, y) ==
    CASE x.t = "float" ->
            /\ y.t = "Decimal"
            /\ y.coeff * Pow10(y.exp + 4) = x.m * Pow10(x.e + 4)
      [] x.t = "dict" ->
            /\ y.t = "dict"
            /\ DOMAIN y.d = DOMAIN x.d
            /\ \A k \in DOMAIN x.d : Converted(x.d[k], y.d[k])
      [] x.t = "list" ->
            /\ y.t = "list"
            /\ Len(y.l) = Len(x.l)
            /\ \A i \in 1..Len(x.l) : Converted(x.l[i], y.l[i])
      [] OTHER -> y = x

\* C8: convert_floats_to_decimals keeps the shape of its argument, leaves
\* no float in it, replaces each float by the decimal of the same magnitude,
\* leaves every other leaf unchanged, and applied twice gives what it gives
\* applied once.
C8_TransformConvertsAllFloats ==
    /\ (tpc \in {"converted", "twice"} => Converted(tin, tout) /\ NoFloat(tout))
    /\ (tpc = "twice" => tout2 = tout)

C8_Witness ==
    /\ tpc = "twice"
    /\ tin = PyList(<<PyDict([Stats |-> PyFloat(5, 1)]), PyInt(50)>>)
    /\ tout = PyList(<<PyDict([Stats |-> Decimal(500, -1)]), PyInt(50)>>)
    /\ tout2 = tout

\* C9: when store_team_stats fails partway, no later record is processed,
\* the call is not repeated, the entry point reports status 500 with the
\* error, and what the table accepted before the failure is still there.
C9_PersistFailureAborts ==
    StoreFailed =>
        /\ pc = "done"
        /\ calls = Stages
        /\ (entry = "lambda" =>
               result = [statusCode |-> 500,
                         body |-> json_dumps("Error: " \o ExcStr(storeOutcome))])
        /\ Len(submitted) \in {idx - 1, idx}
        /\ acked <= Len(submitted)
        /\ \A i \in 1..acked :
              \E j \in store :
                  /\ ItemKey(j) = ItemKey(submitted[i])
                  /\ \E k \in 1..acked : j = submitted[k]

C9_Witness ==
    /\ StoreFailed
    /\ entry = "lambda"
    /\ acked > 0
    /\ Len(submitted) < Len(stats.l)
    /\ result.statusCode = 500

\* C10: apart from the table, every invocation starts from the in-process
\* state the first one started from: the logger has the handlers it had
\* then.
C10_InvocationsStartAlike ==
    pc = "construct" => handlers = NoHandlers

============================================================================
